---------------------------- MODULE Spec2Model ----------------------------
(***************************************************************************)
(* A model of the dividend-rotation engine of                              *)
(* scripts/dividend_rotation_v4_real_cli_plan.py: the trading calendar and *)
(* the trading-day shift, the candidate scorer, the forward plan and the   *)
(* historical rotation simulator.                                          *)
(*                                                                         *)
(* Dates are proleptic Gregorian ordinals (date.toordinal()): ordinal 1 is *)
(* a Monday.  An Optional[date] is a sequence of length at most one:       *)
(* None is <<>>, a date d is <<d>>.  Money is counted in cents and the     *)
(* float arithmetic of the script is modelled by exact integer/rational    *)
(* arithmetic.                                                             *)
(*                                                                         *)
(* Each component has its own specification (SpecCal, SpecPlan, SpecSim,   *)
(* SpecScore); the variables of the other components stay at their         *)
(* initial values.                                                         *)
(***************************************************************************)
EXTENDS Integers, Sequences, FiniteSets, TLC

VARIABLES
    \* ---- trading calendar and shift (SpecCal)
    cal_pc,             \* "start" | "calendar" | "shifted"
    start_d,            \* build_trading_calendar: start_d
    end_d,              \* build_trading_calendar: end_d
    holidays,           \* build_trading_calendar: holidays (a set of dates)
    trading_calendar,   \* the list build_trading_calendar returned
    ref_date,           \* shift_trading_day_with_calendar: ref_date
    offset,             \* shift_trading_day_with_calendar: offset
    shift_result,       \* what shift_trading_day_with_calendar returned
    \* ---- command-line arguments shared by the components
    hold_pre,           \* --hold-pre
    hold_post,          \* --hold-post
    topk,               \* --topk
    \* ---- forward plan (SpecPlan)
    plan_pc,            \* "start" | "done"
    today,              \* datetime.now().date()
    ex_lookahead_days,  \* --ex-lookahead
    hol,                \* the set get_us_holidays returned
    all_future_events,  \* the events collected for the ranked candidates
    plans,              \* the rows of the plan table
    \* ---- historical simulation (SpecSim)
    sim_pc,             \* "ticker" | "prices" | "events" | "bought" | "done" | "raised"
    initial_cash,       \* --initial-cash, in cents
    alloc_per_event,    \* --alloc-per-event, in percent
    ranked_n,           \* the number of rows of ranked
    ti,                 \* the row of ranked the outer loop is at (1-based)
    rows_left,          \* the rows of div_df the inner loop has not reached yet
    px,                 \* the price frame of the current ticker
    cash,               \* the running cash, in cents
    holding,            \* the purchase made and not yet sold (a sequence of <= 1)
    trades,             \* the trade log
    equity_curve,       \* the points (sell_d, cash) appended so far
    purchase_log,       \* history: per purchase, the cash held just before it and
                        \* the per-share dividend of its row
    gateway_failed,     \* history: the calls <<row of ranked, "div" | "eod">> whose
                        \* _get raised
    equity_df,          \* the consolidated equity frame simulate_rotation returns
    \* ---- candidate scoring (SpecScore)
    score_pc,           \* "start" | "done" | "raised" | "exit_nonzero"
    wY,                 \* --wY
    wL,                 \* --wL
    wS,                 \* --wS
    candidates,         \* base: the frame screener_etfs returned, with next_ex merged
    ranked,             \* the frame build_scored_candidates returned
    unavailable,        \* the lookups ("screener", "calendar") whose _get raised
    \* ---- one call of _get (SpecGet)
    get_pc,             \* "loop" | "returned" | "raised"
    attempt,            \* the loop variable of _get
    backoff,            \* backoff, in sixteenths of a second
    outcomes,           \* history: how each request so far ended
    sleeps,             \* history: the arguments of time.sleep, in sixteenths
    last_response,      \* the response to the latest request
    get_result,         \* what _get returned
    \* ---- DividedByZeroAgent.divide (SpecDiv)
    div_pc,             \* "start" | "done"
    inp,                \* the DivInput: fields a and b, two floats
    div_result          \* the DivResult returned

calVars == <<cal_pc, start_d, end_d, holidays, trading_calendar,
             ref_date, offset, shift_result>>

argVars == <<hold_pre, hold_post, topk>>

planVars == <<plan_pc, today, ex_lookahead_days, hol, all_future_events, plans>>

simVars == <<sim_pc, initial_cash, alloc_per_event, ranked_n, ti, rows_left, px,
             cash, holding, trades, equity_curve, purchase_log, gateway_failed,
             equity_df>>

scoreVars == <<score_pc, wY, wL, wS, candidates, ranked, unavailable>>

getVars == <<get_pc, attempt, backoff, outcomes, sleeps, last_response,
             get_result>>

divVars == <<div_pc, inp, div_result>>

vars == <<calVars, argVars, planVars, simVars, scoreVars, getVars, divVars>>

-----------------------------------------------------------------------------
(* Bounds of the model *)

\* dates are the ordinals 1..MaxDay (Monday of week one onwards)
MaxDay == 9

\* a holiday set has at most MaxHolidays dates
MaxHolidays == 2

\* trading-day offsets range over -MaxOffset..MaxOffset
MaxOffset == 2

Days == 1..MaxDay

Offsets == (0 - MaxOffset)..MaxOffset

-----------------------------------------------------------------------------
(* Optional values *)

None == <<>>

Some(x) == <<x>>

IsNone(o) == o = <<>>

Range(s) == {s[i] : i \in 1..Len(s)}

-----------------------------------------------------------------------------
(* Pure helpers of the script *)

\* date.weekday(): Monday is 0 and Sunday is 6; ordinal 1 is a Monday
weekday(d) == (d + 6) % 7

\* the calendar days of [s, e] in ascending order (empty when e < s)
DateRange(s, e) == [i \in 1..(e - s + 1) |-> s + i - 1]

\* pd.bdate_range(start, end).date: the Monday-to-Friday days of [s, e]
bdate_range(s, e) == SelectSeq(DateRange(s, e), LAMBDA d : weekday(d) < 5)

\* build_trading_calendar, with a weekend day let through
build_trading_calendar_sat(s, e, hols) ==
    SelectSeq(SelectSeq(DateRange(s, e), LAMBDA d : weekday(d) < 6),
              LAMBDA d : d \notin hols)

\* build_trading_calendar(start_d, end_d, holidays)
build_trading_calendar(s, e, hols) ==
    LET bdays == bdate_range(s, e)
    IN  SelectSeq(bdays, LAMBDA d : d \notin hols)

\* sorted(list) of dates
sorted(s) == SortSeq(s, LAMBDA a, b : a < b)

\* list.index(x): the 0-based position of the first element equal to x
index(s, x) ==
    (CHOOSE i \in 1..Len(s) : s[i] = x /\ \A j \in 1..(i - 1) : s[j] # x) - 1

\* shift_trading_day_with_calendar taking the first calendar date as base
shift_trading_day_first_base(ref, off, calendar) ==
    IF calendar = <<>> THEN None
    ELSE LET dts == sorted(calendar)
             tgt == off
         IN  IF tgt < 0 \/ tgt >= Len(dts) THEN None ELSE Some(dts[tgt + 1])

\* shift_trading_day_with_calendar with the base taken after ref_date
shift_trading_day_next_base(ref, off, calendar) ==
    IF calendar = <<>> THEN None
    ELSE LET dts == sorted(calendar)
             later == SelectSeq(dts, LAMBDA d : d >= ref)
         IN  IF later = <<>> THEN None
             ELSE LET tgt == index(dts, later[1]) + off
                  IN  IF tgt < 0 \/ tgt >= Len(dts) THEN None
                      ELSE Some(dts[tgt + 1])

\* shift_trading_day_with_calendar(ref_date, offset, trading_calendar)
shift_trading_day_with_calendar(ref, off, calendar) ==
    IF calendar = <<>> THEN None
    ELSE LET dts == sorted(calendar)
             base_candidates == SelectSeq(dts, LAMBDA d : d <= ref)
         IN  IF base_candidates = <<>> THEN None
             ELSE LET base == base_candidates[Len(base_candidates)]
                      idx  == index(dts, base)
                      tgt  == idx + off
                  IN  IF tgt < 0 \/ tgt >= Len(dts) THEN None
                      ELSE Some(dts[tgt + 1])

-----------------------------------------------------------------------------
(* SpecCal: build a trading calendar, then shift reference dates on it *)

\* the permutations of 1..n
Permutations1(n) ==
    {f \in [1..n -> 1..n] : \A i, j \in 1..n : i # j => f[i] # f[j]}

HolidaySets == {h \in SUBSET Days : Cardinality(h) <= MaxHolidays}

IdleArgs == hold_pre = 0 /\ hold_post = 0 /\ topk = 0

IdleCal ==
    /\ cal_pc = "idle"
    /\ start_d = 1
    /\ end_d = 1
    /\ holidays = {}
    /\ trading_calendar = <<>>
    /\ ref_date = 1
    /\ offset = 0
    /\ shift_result = None

IdlePlan ==
    /\ plan_pc = "idle"
    /\ today = 1
    /\ ex_lookahead_days = 0
    /\ hol = {}
    /\ all_future_events = <<>>
    /\ plans = <<>>

IdleSim ==
    /\ sim_pc = "idle"
    /\ initial_cash = 0
    /\ alloc_per_event = 0
    /\ ranked_n = 0
    /\ ti = 1
    /\ rows_left = 0
    /\ px = <<>>
    /\ cash = 0
    /\ holding = <<>>
    /\ trades = <<>>
    /\ equity_curve = <<>>
    /\ purchase_log = <<>>
    /\ gateway_failed = {}
    /\ equity_df = <<>>

IdleScore ==
    /\ score_pc = "idle"
    /\ wY = 0
    /\ wL = 0
    /\ wS = 0
    /\ candidates = <<>>
    /\ ranked = <<>>
    /\ unavailable = {}

IdleDiv ==
    /\ div_pc = "idle"
    /\ inp = <<>>
    /\ div_result = <<>>

IdleGet ==
    /\ get_pc = "idle"
    /\ attempt = 0
    /\ backoff = 0
    /\ outcomes = <<>>
    /\ sleeps = <<>>
    /\ last_response = <<>>
    /\ get_result = <<>>

InitCal ==
    /\ cal_pc = "start"
    /\ start_d \in Days
    /\ end_d \in Days
    /\ start_d <= end_d
    /\ holidays \in HolidaySets
    /\ trading_calendar = <<>>
    /\ ref_date = start_d
    /\ offset = 0
    /\ shift_result = None
    /\ IdleArgs
    /\ IdlePlan
    /\ IdleSim
    /\ IdleScore
    /\ IdleGet
    /\ IdleDiv

\* cal = build_trading_calendar(start_d, end_d, holidays)
BuildTradingCalendar ==
    /\ cal_pc = "start"
    /\ trading_calendar' = build_trading_calendar(start_d, end_d, holidays)
    /\ cal_pc' = "calendar"
    /\ UNCHANGED <<start_d, end_d, holidays, ref_date, offset, shift_result>>

\* r = shift_trading_day_with_calendar(ref, off, cal)
ShiftTradingDay ==
    /\ cal_pc = "calendar"
    /\ \E ref \in Days, off \in Offsets :
          /\ ref_date' = ref
          /\ offset' = off
          /\ shift_result' =
                 shift_trading_day_with_calendar(ref, off, trading_calendar)
    /\ cal_pc' = "shifted"
    /\ UNCHANGED <<start_d, end_d, holidays, trading_calendar>>

NextCal ==
    \/ BuildTradingCalendar /\ UNCHANGED <<divVars, getVars, argVars, planVars, simVars, scoreVars>>
    \/ ShiftTradingDay /\ UNCHANGED <<divVars, getVars, argVars, planVars, simVars, scoreVars>>

SpecCal == InitCal /\ [][NextCal]_vars

-----------------------------------------------------------------------------
(* Properties of the trading calendar and of the shift (SpecCal) *)

Max(S) == CHOOSE x \in S : \A y \in S : y <= x

IsSaturday(d) == d % 7 = 6

IsSunday(d) == d % 7 = 0

StrictlyAscending(s) == \A i \in 1..(Len(s) - 1) : s[i] < s[i + 1]

\* the calendar dates on or before ref
PriorSessions(ref) == {c \in Range(trading_calendar) : c <= ref}

\* C1: build_trading_calendar(start, end, holidays) returns exactly the
\* Monday-to-Friday dates of [start, end] that are not holidays, strictly
\* ascending (so without duplicates): no Saturday, no Sunday, no holiday.
C1_CalendarExact ==
    cal_pc # "start" =>
        /\ \A d \in Days :
              d \in Range(trading_calendar) <=>
                  /\ start_d <= d /\ d <= end_d
                  /\ ~IsSaturday(d) /\ ~IsSunday(d)
                  /\ d \notin holidays
        /\ Range(trading_calendar) \subseteq Days
        /\ StrictlyAscending(trading_calendar)

\* C1 witness: a range that spans a weekend and a weekday holiday, with
\* trading days left on both sides of the weekend.
C1_Witness ==
    /\ cal_pc = "calendar"
    /\ \E h \in holidays : start_d < h /\ h < end_d /\ weekday(h) < 5
    /\ \E d \in start_d..end_d : IsSaturday(d)
    /\ Len(trading_calendar) >= 3

\* C2 as stated: for an in-range reference date d, the shift by 0 returns d
\* if d is in the calendar, else the nearest prior trading day of the
\* calendar (a date in every case).  Stated here for non-empty calendars
\* only, where it fails all the same.
C2_ShiftZeroAlwaysADate ==
    (cal_pc = "shifted" /\ offset = 0 /\ trading_calendar # <<>>
         /\ start_d <= ref_date /\ ref_date <= end_d) =>
        IF ref_date \in Range(trading_calendar)
        THEN shift_result = Some(ref_date)
        ELSE /\ PriorSessions(ref_date) # {}
             /\ shift_result = Some(Max(PriorSessions(ref_date)))

\* C2 amended: for an in-range reference date d, the shift by 0 returns d if
\* d is in the calendar, else the nearest prior trading day of the calendar
\* when the calendar has a date before d, and None when it has none.
C2_ShiftZero ==
    (cal_pc = "shifted" /\ offset = 0
         /\ start_d <= ref_date /\ ref_date <= end_d) =>
        IF ref_date \in Range(trading_calendar)
        THEN shift_result = Some(ref_date)
        ELSE IF PriorSessions(ref_date) # {}
             THEN shift_result = Some(Max(PriorSessions(ref_date)))
             ELSE shift_result = None

\* C2 witness: an in-range Sunday shifted by 0 gives the Friday before it.
C2_Witness ==
    /\ cal_pc = "shifted" /\ offset = 0
    /\ start_d <= ref_date /\ ref_date <= end_d
    /\ IsSunday(ref_date)
    /\ shift_result = Some(ref_date - 2)

\* C3: the base is the latest calendar date <= ref_date (ref_date itself
\* when it is in the calendar) and the result is the calendar date offset
\* positions from the base; the result is None exactly when the calendar is
\* empty, has no date <= ref_date, or the position falls outside the
\* calendar.  The result is always None or one calendar date (no raise).
C3_ShiftRule ==
    cal_pc = "shifted" =>
        LET prior == PriorSessions(ref_date)
            pos   == Cardinality(prior) + offset
        IN  /\ shift_result = None
                \/ \E c \in Range(trading_calendar) : shift_result = Some(c)
            /\ IF prior = {} \/ pos < 1 \/ pos > Len(trading_calendar)
               THEN shift_result = None
               ELSE /\ trading_calendar[Cardinality(prior)] = Max(prior)
                    /\ shift_result = Some(trading_calendar[pos])

\* C3 witness: a non-trading reference date, a non-zero offset, a result.
C3_Witness ==
    /\ cal_pc = "shifted"
    /\ ref_date \notin Range(trading_calendar)
    /\ offset < 0
    /\ shift_result # None

\* C3 witness of the not-found side is part of the same reachable space:
\* an offset past the end of a non-empty calendar.
C3_NotFoundReached ==
    /\ cal_pc = "shifted"
    /\ PriorSessions(ref_date) # {}
    /\ offset > 0
    /\ shift_result = None

-----------------------------------------------------------------------------
(* SpecPlan: build_forward_plan *)

\* build_forward_plan starts the calendar 30 days before today
PlanBufferDays == 30

\* build_forward_plan ends the calendar 5 days after the lookahead window
PlanTailDays == 5

\* the lookahead window has at most MaxLookahead days
MaxLookahead == 3

\* at most MaxEvents upcoming dividend events are collected
MaxEvents == 2

\* the ranked candidates are the tickers 1..NumTickers, numbered in the
\* lexical order of their names
NumTickers == 2

Tickers == 1..NumTickers

\* one week of possible values of today, late enough for the 30-day buffer
Todays == (PlanBufferDays + 1)..(PlanBufferDays + 7)

\* --hold-pre and --hold-post: small offsets, and one hold_pre that no
\* 30-day buffer can satisfy
HoldPreChoices == (0..MaxOffset) \cup {PlanBufferDays}

HoldPostChoices == 0..MaxOffset

\* the note of a row whose dates could not be computed
NoteUnresolved == "cannot compute buy/sell date"

\* the sequences over S of length at most n
SeqsUpTo(S, n) == UNION {[1..k -> S] : k \in 0..n}

\* the order of cal.sort_values(["ex_date","ticker"])
EventBefore(a, b) ==
    \/ a.ex_date < b.ex_date
    \/ a.ex_date = b.ex_date /\ a.ticker < b.ticker

\* cal.sort_values(["ex_date","ticker"]): a stable sort of the events
RECURSIVE sort_events(_)
sort_events(s) ==
    IF s = <<>> THEN <<>>
    ELSE LET init == sort_events(SubSeq(s, 1, Len(s) - 1))
             x    == s[Len(s)]
             k    == Cardinality({i \in 1..Len(init) : ~EventBefore(x, init[i])})
         IN  SubSeq(init, 1, k) \o <<x>> \o SubSeq(init, k + 1, Len(init))

\* the per-share dividends of the upcoming events, in cents
PlanAmountChoices == {50}

\* row.get('close', 0.0) of the ranked candidates, in cents: the first has a
\* close, the others have none
RankedClose(tkr) == IF tkr = 1 THEN 300 ELSE 0

\* an event of the /div/ endpoint: the dividend is under "value"; the keys
\* an event lacks are None (NaN in the frame)
DivEndpointPayloads ==
    [value : {Some(v) : v \in PlanAmountChoices}, amount : {None}]

\* an event taken from the ranked frame (the fallback): the dividend is
\* under "amount"
RankedPayloads ==
    [value : {None}, amount : {Some(a) : a \in PlanAmountChoices}]

\* an event with its payload
event_of(tkr, exd, payload) ==
    [ticker |-> tkr, ex_date |-> exd, value |-> payload.value,
     amount |-> payload.amount, close_price |-> RankedClose(tkr)]

\* what the loop over ranked can collect: the events of a ticker come from
\* the endpoint, or there is one event for it, from the ranked frame
Collectable(events) ==
    \A i, j \in 1..Len(events) :
        (i # j /\ events[i].ticker = events[j].ticker) =>
            /\ events[i].value # None
            /\ events[j].value # None

\* cal = pd.DataFrame(all_future_events): a row has the column "value" when
\* some event has the key
frame_of(events) ==
    [i \in 1..Len(events) |->
        [ticker |-> events[i].ticker, ex_date |-> events[i].ex_date,
         value |-> events[i].value, amount |-> events[i].amount,
         close_price |-> events[i].close_price,
         value_col |-> \E j \in 1..Len(events) : events[j].value # None]]

\* r.get("value", 0.0): the value, None for NaN, 0.0 without the column
dividend_amount_of(r) == IF r.value_col THEN r.value ELSE Some(0)

\* f"{x:.2f}" of x = num / den * 100 for den > 0, as a count of hundredths
format_pct(num, den) == (2 * num * 10000 + den) \div (2 * den)

\* estimated_gain, in hundredths of a percent as printed with two decimals
estimated_gain(dividend_amount, close_price) ==
    IF dividend_amount = None THEN 0
    ELSE IF close_price > 0 /\ dividend_amount[1] > 0
         THEN format_pct(dividend_amount[1], close_price)
         ELSE 0

\* a plan row with the two offsets exchanged
plan_row_swapped(e, pre, post, trading_cal) ==
    LET buy_d  == shift_trading_day_with_calendar(e.ex_date, post, trading_cal)
        sell_d == shift_trading_day_with_calendar(e.ex_date, 0 - pre, trading_cal)
    IN  [ticker         |-> e.ticker,
         ex_date        |-> e.ex_date,
         amount         |-> dividend_amount_of(e),
         plan_buy_date  |-> buy_d,
         plan_sell_date |-> sell_d,
         estimated_pct_gain |->
             estimated_gain(dividend_amount_of(e), e.close_price),
         note           |-> IF buy_d = None \/ sell_d = None
                            THEN NoteUnresolved ELSE ""]

\* one row of the plan table, for row e of the frame of events
plan_row(e, pre, post, trading_cal) ==
    LET buy_d  == shift_trading_day_with_calendar(e.ex_date, 0 - pre, trading_cal)
        sell_d == shift_trading_day_with_calendar(e.ex_date, post, trading_cal)
    IN  [ticker         |-> e.ticker,
         ex_date        |-> e.ex_date,
         amount         |-> dividend_amount_of(e),
         plan_buy_date  |-> buy_d,
         plan_sell_date |-> sell_d,
         estimated_pct_gain |->
             estimated_gain(dividend_amount_of(e), e.close_price),
         note           |-> IF buy_d = None \/ sell_d = None
                            THEN NoteUnresolved ELSE ""]

\* the trading calendar build_forward_plan constructs
plan_trading_cal(td, lookahead, holset) ==
    build_trading_calendar(td - PlanBufferDays,
                           (td + lookahead) + PlanTailDays, holset)

\* build_forward_plan with the rows that have an unresolved date left out
build_forward_plan_resolved_only(events, pre, post, td, lookahead, holset) ==
    LET trading_cal == plan_trading_cal(td, lookahead, holset)
        ordered     == sort_events(frame_of(events))
    IN  SelectSeq([i \in 1..Len(ordered) |->
                      plan_row(ordered[i], pre, post, trading_cal)],
                  LAMBDA r : r.note = "")

\* the rows build_forward_plan returns for the collected events
build_forward_plan(events, pre, post, td, lookahead, holset) ==
    LET trading_cal == plan_trading_cal(td, lookahead, holset)
        ordered     == sort_events(frame_of(events))
    IN  [i \in 1..Len(ordered) |-> plan_row(ordered[i], pre, post, trading_cal)]

InitPlan ==
    /\ plan_pc = "start"
    /\ today \in Todays
    /\ ex_lookahead_days \in 0..MaxLookahead
    /\ hol \in {h \in SUBSET (today..(today + ex_lookahead_days + 1)) :
                   Cardinality(h) <= MaxHolidays}
    /\ hold_pre \in HoldPreChoices
    /\ hold_post \in HoldPostChoices
    /\ topk = 0
    /\ all_future_events = <<>>
    /\ plans = <<>>
    /\ IdleCal
    /\ IdleSim
    /\ IdleScore
    /\ IdleGet
    /\ IdleDiv

\* plan_df = build_forward_plan(ranked, hold_pre, hold_post, exchange,
\* ex_lookahead_days): the events lie in [today, today + ex_lookahead_days]
BuildForwardPlan ==
    /\ plan_pc = "start"
    /\ \E events \in SeqsUpTo(
              {event_of(tkr, exd, payload) :
                  tkr \in Tickers,
                  exd \in today..(today + ex_lookahead_days),
                  payload \in DivEndpointPayloads \cup RankedPayloads},
              MaxEvents) :
          /\ Collectable(events)
          /\ all_future_events' = events
          /\ plans' = build_forward_plan(events, hold_pre, hold_post,
                                         today, ex_lookahead_days, hol)
    /\ plan_pc' = "done"
    /\ UNCHANGED <<today, ex_lookahead_days, hol>>

NextPlan == BuildForwardPlan /\ UNCHANGED <<divVars, getVars, argVars, calVars, simVars, scoreVars>>

SpecPlan == InitPlan /\ [][NextPlan]_vars

-----------------------------------------------------------------------------
(* Properties of the forward plan (SpecPlan) *)

BothResolved(r) == r.plan_buy_date # None /\ r.plan_sell_date # None

PlanCalendarDays == Range(plan_trading_cal(today, ex_lookahead_days, hol))

\* C4 as stated: every row whose two dates resolved has
\* plan_buy_date <= ex_date <= plan_sell_date.
C4_BuyExSellOrdered ==
    \A i \in 1..Len(plans) :
        BothResolved(plans[i]) =>
            /\ plans[i].plan_buy_date[1] <= plans[i].ex_date
            /\ plans[i].ex_date <= plans[i].plan_sell_date[1]

\* C4 amended: every row whose two dates resolved has
\* plan_buy_date <= ex_date, and ex_date <= plan_sell_date when
\* hold_post >= 1 or the ex-date is a trading day of the calendar; with
\* hold_post = 0 and an ex-date on a weekend or holiday the sell date is
\* the last session before the ex-date.
C4_BuyExSellOrderedOnSessions ==
    \A i \in 1..Len(plans) :
        BothResolved(plans[i]) =>
            /\ plans[i].plan_buy_date[1] <= plans[i].ex_date
            /\ (hold_post >= 1 \/ plans[i].ex_date \in PlanCalendarDays)
                   => plans[i].ex_date <= plans[i].plan_sell_date[1]
            /\ (hold_post = 0 /\ plans[i].ex_date \notin PlanCalendarDays)
                   => /\ plans[i].plan_sell_date[1] < plans[i].ex_date
                      /\ plans[i].plan_sell_date[1] =
                             Max({c \in PlanCalendarDays : c < plans[i].ex_date})

\* C4 witness: a resolved row for a weekend ex-date with hold_pre > 0 and
\* hold_post > 0, bought before and sold after the ex-date.
C4_Witness ==
    /\ plan_pc = "done"
    /\ hold_pre > 0 /\ hold_post > 0
    /\ \E i \in 1..Len(plans) :
          /\ BothResolved(plans[i])
          /\ weekday(plans[i].ex_date) >= 5
          /\ plans[i].plan_buy_date[1] < plans[i].ex_date
          /\ plans[i].ex_date < plans[i].plan_sell_date[1]

\* the plan rows are the collected events, each exactly once
SameEvents(rows, events) ==
    /\ Len(rows) = Len(events)
    /\ \E f \in Permutations1(Len(events)) :
          \A i \in 1..Len(rows) :
              /\ rows[i].ticker = events[f[i]].ticker
              /\ rows[i].ex_date = events[f[i]].ex_date

EventDividend(e) == IF e.value # None THEN e.value[1] ELSE e.amount[1]

\* dividend / reference price * 100 with two decimals, 0 without a price
ReferenceGain(e) ==
    IF e.close_price > 0
    THEN format_pct(EventDividend(e), e.close_price)
    ELSE 0

\* C18: every plan row has estimated_pct_gain = dividend_amount /
\* reference_price * 100 when reference_price > 0, else 0, for the events of
\* the dividend endpoint and for the events taken from the ranked candidates
C18_EstimatedGainBothPaths ==
    plan_pc = "done" =>
        LET ordered == sort_events(all_future_events)
        IN  \A i \in 1..Len(plans) :
                plans[i].estimated_pct_gain = ReferenceGain(ordered[i])

-----------------------------------------------------------------------------
(* SpecSim: simulate_rotation *)

\* the backtest window is [1, SimDays]
SimDays == 12

\* --hold-pre and --hold-post range over 0..MaxHold in the simulation
MaxHold == 1

\* a price frame with fewer rows than this is skipped
MinPxRows == 10

\* a purchase may cost at most this percentage of the cash
CashGuardPct == 98

\* --initial-cash in cents: nothing, 30 and 120 dollars, 10000 dollars
InitialCashChoices == {0, 3000, 12000, 1000000}

\* --alloc-per-event in percent
AllocChoices == {50, 100}

\* --topk
TopkChoices == {0, 2}

\* the ex-dates the dividend history may hold: a Monday, a Saturday, the
\* last day of the window and the day after it
ExDateChoices == {1, 6, SimDays, SimDays + 1}

\* the per-share dividend amounts, in cents
AmountChoices == {0, 50}

\* adjusted_close of the i-th row of a price frame, in cents, by pattern
PxPrice(pattern, i) ==
    CASE pattern = "rising"  -> 5000 + 30 * (i - 1)
      [] pattern = "falling" -> IF 9000 - 1000 * (i - 1) > 0
                                THEN 9000 - 1000 * (i - 1) ELSE 0

PxPatterns == {"rising", "falling"}

\* get_eod_prices: one row per Monday-to-Friday date of the window, in
\* ascending order of date, less the last `missing` rows
PxFrame(pattern, missing) ==
    LET ds == bdate_range(1, SimDays)
    IN  [i \in 1..(Len(ds) - missing) |->
            [date |-> ds[i], adjusted_close |-> PxPrice(pattern, i)]]

\* list(px.index.date)
px_dates(frame) == [i \in 1..Len(frame) |-> frame[i].date]

\* float(px.loc[px.index.date == d, "adjusted_close"].iloc[-1])
px_close(frame, d) ==
    LET rows == SelectSeq(frame, LAMBDA r : r.date = d)
    IN  rows[Len(rows)].adjusted_close

Max2(a, b) == IF a >= b THEN a ELSE b

\* math.floor(alloc_cash / buy_px), where
\* alloc_cash = cash * alloc_per_event / max(1, topk), for alloc_cash > 0
\* and buy_px > 0
floor_shares(c, alloc, k, buy_px) ==
    (c * alloc) \div (100 * Max2(1, k) * buy_px)

\* shares rounded up instead of down
shares_round_up(c, alloc, k, buy_px) == floor_shares(c, alloc, k, buy_px) + 1

\* shares = max(1.0, math.floor(alloc_cash / buy_px))
shares_for(c, alloc, k, buy_px) == Max2(1, floor_shares(c, alloc, k, buy_px))

\* the guard with the cash margin left out
cost_rejected_no_margin(cost, c) == cost <= 0

\* cost <= 0 or cost > cash * 0.98
cost_rejected(cost, c) == cost <= 0 \/ cost * 100 > c * CashGuardPct

\* pnl with the dividend left out
trade_pnl_no_dividend(proceeds, div_cash, cost) == proceeds - cost

\* pnl = (proceeds + div_cash) - cost
trade_pnl(proceeds, div_cash, cost) == (proceeds + div_cash) - cost

InitSim ==
    /\ sim_pc = "ticker"
    /\ initial_cash \in InitialCashChoices
    /\ alloc_per_event \in AllocChoices
    /\ topk \in TopkChoices
    /\ hold_pre \in 0..MaxHold
    /\ hold_post \in 0..MaxHold
    /\ ranked_n = NumTickers
    /\ ti = 1
    /\ rows_left = 0
    /\ px = <<>>
    /\ cash = initial_cash
    /\ holding = <<>>
    /\ trades = <<>>
    /\ equity_curve = <<>>
    /\ purchase_log = <<>>
    /\ gateway_failed = {}
    /\ equity_df = <<>>
    /\ IdleCal
    /\ IdlePlan
    /\ IdleScore
    /\ IdleGet
    /\ IdleDiv

simFixed == <<initial_cash, alloc_per_event, ranked_n>>

\* div_hist = _get(url, ...) gives a usable list of rows (from the endpoint,
\* or the mock row the except branch substitutes)
FetchDividends ==
    /\ sim_pc = "ticker" /\ ti <= ranked_n
    /\ \E n \in 1..MaxEvents : rows_left' = n
    /\ sim_pc' = "prices"
    /\ UNCHANGED <<simFixed, ti, px, cash, holding, trades, equity_curve,
                   purchase_log, gateway_failed, equity_df>>

\* div_hist = _get(url, ...) raises (the gateway failed after its retries):
\* the except branch substitutes one mock row for a ticker of its table,
\* and the empty list for any other ticker, which is then skipped
DividendsUnavailable ==
    /\ sim_pc = "ticker" /\ ti <= ranked_n
    /\ gateway_failed' = gateway_failed \cup {<<ti, "div">>}
    /\ \E in_mock_table \in BOOLEAN :
          IF in_mock_table
          THEN /\ rows_left' = 1
               /\ sim_pc' = "prices"
               /\ ti' = ti
          ELSE /\ rows_left' = rows_left
               /\ sim_pc' = sim_pc
               /\ ti' = ti + 1
    /\ UNCHANGED <<simFixed, px, cash, holding, trades, equity_curve,
                   purchase_log, equity_df>>

\* div_hist is empty, not a list, or has no date column: continue
NoDividends ==
    /\ sim_pc = "ticker" /\ ti <= ranked_n
    /\ ti' = ti + 1
    /\ UNCHANGED <<simFixed, sim_pc, rows_left, px, cash, holding, trades,
                   equity_curve,
                   purchase_log, gateway_failed, equity_df>>

\* px = get_eod_prices(tkr, start, end) with at least MinPxRows rows
GetEodPrices ==
    /\ sim_pc = "prices"
    /\ \E pattern \in PxPatterns :
          /\ Len(PxFrame(pattern, 0)) >= MinPxRows
          /\ px' = PxFrame(pattern, 0)
    /\ sim_pc' = "events"
    /\ UNCHANGED <<simFixed, ti, rows_left, cash, holding, trades, equity_curve,
                   purchase_log, gateway_failed, equity_df>>

\* px.empty or len(px) < 10: continue
TooFewPrices ==
    /\ sim_pc = "prices"
    /\ \E pattern \in PxPatterns, missing \in {1, Len(bdate_range(1, SimDays))} :
          Len(PxFrame(pattern, missing)) < MinPxRows
    /\ ti' = ti + 1
    /\ sim_pc' = "ticker"
    /\ UNCHANGED <<simFixed, rows_left, px, cash, holding, trades, equity_curve,
                   purchase_log, gateway_failed, equity_df>>

\* get_eod_prices raises (the gateway failed after its retries): the call is
\* not guarded, simulate_rotation raises
PricesRaise ==
    /\ sim_pc = "prices"
    /\ sim_pc' = "raised"
    /\ gateway_failed' = gateway_failed \cup {<<ti, "eod">>}
    /\ UNCHANGED <<simFixed, ti, rows_left, px, cash, holding, trades, equity_curve,
                   purchase_log, equity_df>>

\* the inner loop has no row left: next row of ranked
EventsDone ==
    /\ sim_pc = "events" /\ rows_left = 0
    /\ ti' = ti + 1
    /\ sim_pc' = "ticker"
    /\ UNCHANGED <<simFixed, rows_left, px, cash, holding, trades, equity_curve,
                   purchase_log, gateway_failed, equity_df>>

\* the buy and sell dates of an event with ex-date exd
buy_date(exd) == shift_trading_day_with_calendar(exd, 0 - hold_pre, px_dates(px))

sell_date(exd) == shift_trading_day_with_calendar(exd, hold_post, px_dates(px))

\* the window test without its upper bound
event_in_window_no_end(exd) == 1 <= exd

\* start_d <= exd <= end_d
EventInWindow(exd) == 1 <= exd /\ exd <= SimDays

EventResolved(exd) ==
    EventInWindow(exd) /\ buy_date(exd) # None /\ sell_date(exd) # None

\* the purchase the script makes for an event with ex-date exd (resolved,
\* buy price > 0, alloc_cash > 0)
Purchase(exd, amount) ==
    LET buy_d  == buy_date(exd)[1]
        sell_d == sell_date(exd)[1]
        buy_px == px_close(px, buy_d)
        shares == shares_for(cash, alloc_per_event, topk, buy_px)
    IN  [ticker |-> ti, ex_date |-> exd, buy_date |-> buy_d, sell_date |-> sell_d,
         buy_price |-> buy_px, sell_price |-> px_close(px, sell_d),
         shares |-> shares, cost |-> shares * buy_px, amount |-> amount]

\* the row is skipped before any price is read: ex-date missing (NaN),
\* outside [start_d, end_d], or a date that cannot be resolved
SkipUnresolved ==
    /\ sim_pc = "events" /\ rows_left > 0
    /\ \E e \in {None} \cup {Some(d) : d \in ExDateChoices} :
          IF e = None THEN TRUE ELSE ~EventResolved(e[1])
    /\ rows_left' = rows_left - 1
    /\ UNCHANGED <<simFixed, sim_pc, ti, px, cash, holding, trades, equity_curve,
                   purchase_log, gateway_failed, equity_df>>

\* alloc_cash <= 0: continue
SkipNoAllocation ==
    /\ sim_pc = "events" /\ rows_left > 0
    /\ \E exd \in ExDateChoices : EventResolved(exd)
    /\ cash * alloc_per_event <= 0
    /\ rows_left' = rows_left - 1
    /\ UNCHANGED <<simFixed, sim_pc, ti, px, cash, holding, trades, equity_curve,
                   purchase_log, gateway_failed, equity_df>>

\* alloc_cash / buy_px with buy_px = 0.0: ZeroDivisionError, the
\* simulation raises
DivideByZeroPrice ==
    /\ sim_pc = "events" /\ rows_left > 0
    /\ cash * alloc_per_event > 0
    /\ \E exd \in ExDateChoices :
          /\ EventResolved(exd)
          /\ px_close(px, buy_date(exd)[1]) = 0
    /\ sim_pc' = "raised"
    /\ UNCHANGED <<simFixed, ti, rows_left, px, cash, holding, trades, equity_curve,
                   purchase_log, gateway_failed, equity_df>>

\* cost <= 0 or cost > cash * 0.98: continue
SkipCost ==
    /\ sim_pc = "events" /\ rows_left > 0
    /\ cash * alloc_per_event > 0
    /\ \E exd \in ExDateChoices :
          /\ EventResolved(exd)
          /\ px_close(px, buy_date(exd)[1]) > 0
          /\ cost_rejected(Purchase(exd, 0).cost, cash)
    /\ rows_left' = rows_left - 1
    /\ UNCHANGED <<simFixed, sim_pc, ti, px, cash, holding, trades, equity_curve,
                   purchase_log, gateway_failed, equity_df>>

\* cash -= cost
BuyEvent ==
    /\ sim_pc = "events" /\ rows_left > 0
    /\ cash * alloc_per_event > 0
    /\ \E exd \in ExDateChoices, amount \in AmountChoices :
          /\ EventResolved(exd)
          /\ px_close(px, buy_date(exd)[1]) > 0
          /\ ~cost_rejected(Purchase(exd, amount).cost, cash)
          /\ holding' = <<Purchase(exd, amount)>>
          /\ cash' = cash - Purchase(exd, amount).cost
          /\ purchase_log' = Append(purchase_log,
                                  [cash |-> cash, amount |-> amount])
    /\ rows_left' = rows_left - 1
    /\ sim_pc' = "bought"
    /\ UNCHANGED <<simFixed, ti, px, trades, equity_curve, gateway_failed, equity_df>>

\* cash += proceeds + div_cash; the trade and the equity point are appended
SellEvent ==
    /\ sim_pc = "bought"
    /\ LET p        == holding[1]
           div_cash == p.amount * p.shares
           proceeds == p.shares * p.sell_price
       IN  /\ cash' = cash + (proceeds + div_cash)
           /\ trades' = Append(trades,
                  [ticker |-> p.ticker, ex_date |-> p.ex_date,
                   buy_date |-> p.buy_date, sell_date |-> p.sell_date,
                   buy_price |-> p.buy_price, sell_price |-> p.sell_price,
                   shares |-> p.shares, dividend_cash |-> div_cash,
                   pnl |-> trade_pnl(proceeds, div_cash, p.cost)])
           /\ equity_curve' = Append(equity_curve,
                  [date |-> p.sell_date, equity |-> cash'])
    /\ holding' = <<>>
    /\ sim_pc' = "events"
    /\ UNCHANGED <<simFixed, ti, rows_left, px, purchase_log, gateway_failed,
                   equity_df>>

\* pd.DataFrame(equity_curve).sort_values("date"): the default sort kind is
\* quicksort, which is not stable, so every order of the points that is
\* non-decreasing in date is a possible outcome
sort_values_date(points) ==
    {[i \in 1..Len(points) |-> points[f[i]]] : f \in
        {g \in Permutations1(Len(points)) :
            \A i \in 1..(Len(points) - 1) :
                points[g[i]].date <= points[g[i + 1]].date}}

\* groupby("date", as_index=False).last() of a frame sorted by date: the
\* last row of every date, in ascending order of date
groupby_last(points) ==
    LET keep == {i \in 1..Len(points) :
                    i = Len(points) \/ points[i + 1].date # points[i].date}
    IN  [k \in 1..Cardinality(keep) |->
            points[CHOOSE i \in keep : Cardinality({j \in keep : j <= i}) = k]]

\* the columns "return" (pct_change().fillna(0.0)) and "cum_return"
\* ((1 + return).cumprod() - 1.0) added, as fractions [num, den]
with_returns(frame) ==
    [k \in 1..Len(frame) |->
        [date       |-> frame[k].date,
         equity     |-> frame[k].equity,
         return     |-> IF k = 1 THEN [num |-> 0, den |-> 1]
                        ELSE [num |-> frame[k].equity - frame[k - 1].equity,
                              den |-> frame[k - 1].equity],
         cum_return |-> [num |-> frame[k].equity - frame[1].equity,
                         den |-> frame[1].equity]]]

\* the outer loop is over: the equity curve is consolidated and
\* simulate_rotation returns
SimReturn ==
    /\ sim_pc = "ticker" /\ ti > ranked_n
    /\ \E sorted_points \in sort_values_date(equity_curve) :
          equity_df' = with_returns(groupby_last(sorted_points))
    /\ sim_pc' = "done"
    /\ UNCHANGED <<simFixed, ti, rows_left, px, cash, holding, trades, equity_curve,
                   purchase_log, gateway_failed>>

\* main: final_equity = args.initial_cash if equity.empty else
\* float(equity["equity"].iloc[-1])
final_equity(equity) ==
    IF equity = <<>> THEN initial_cash ELSE equity[Len(equity)].equity

\* main: cum_return = 0.0 if equity.empty else
\* float(equity["cum_return"].iloc[-1])
cum_return(equity) ==
    IF equity = <<>> THEN [num |-> 0, den |-> 1]
    ELSE equity[Len(equity)].cum_return

NextSim ==
    \/ FetchDividends /\ UNCHANGED <<divVars, getVars, argVars, calVars, planVars, scoreVars>>
    \/ DividendsUnavailable /\ UNCHANGED <<divVars, getVars, argVars, calVars, planVars, scoreVars>>
    \/ NoDividends /\ UNCHANGED <<divVars, getVars, argVars, calVars, planVars, scoreVars>>
    \/ GetEodPrices /\ UNCHANGED <<divVars, getVars, argVars, calVars, planVars, scoreVars>>
    \/ TooFewPrices /\ UNCHANGED <<divVars, getVars, argVars, calVars, planVars, scoreVars>>
    \/ PricesRaise /\ UNCHANGED <<divVars, getVars, argVars, calVars, planVars, scoreVars>>
    \/ EventsDone /\ UNCHANGED <<divVars, getVars, argVars, calVars, planVars, scoreVars>>
    \/ SkipUnresolved /\ UNCHANGED <<divVars, getVars, argVars, calVars, planVars, scoreVars>>
    \/ SkipNoAllocation /\ UNCHANGED <<divVars, getVars, argVars, calVars, planVars, scoreVars>>
    \/ DivideByZeroPrice /\ UNCHANGED <<divVars, getVars, argVars, calVars, planVars, scoreVars>>
    \/ SkipCost /\ UNCHANGED <<divVars, getVars, argVars, calVars, planVars, scoreVars>>
    \/ BuyEvent /\ UNCHANGED <<divVars, getVars, argVars, calVars, planVars, scoreVars>>
    \/ SellEvent /\ UNCHANGED <<divVars, getVars, argVars, calVars, planVars, scoreVars>>
    \/ SimReturn /\ UNCHANGED <<divVars, getVars, argVars, calVars, planVars, scoreVars>>

SpecSim == InitSim /\ [][NextSim]_vars

-----------------------------------------------------------------------------
(* Properties of the simulated ledger (SpecSim) *)

\* the purchases made so far: the sold ones (the trade log) and the one held
Purchases ==
    [i \in 1..Len(purchase_log) |->
        IF i <= Len(trades)
        THEN [shares |-> trades[i].shares, buy_price |-> trades[i].buy_price]
        ELSE [shares |-> holding[1].shares, buy_price |-> holding[1].buy_price]]

\* C5: for every purchase shares x buy_price <= the cash held just before
\* it, and the running cash is never negative, after a debit as after a
\* credit.
C5_NoBorrowing ==
    /\ cash >= 0
    /\ Len(purchase_log) = Len(trades) + Len(holding)
    /\ \A i \in 1..Len(purchase_log) :
          Purchases[i].shares * Purchases[i].buy_price <= purchase_log[i].cash

\* C5 witness: after a trade, a purchase that takes more than half of the
\* cash has been debited and is not yet sold.
C5_Witness ==
    /\ sim_pc = "bought"
    /\ Len(trades) >= 1
    /\ 2 * holding[1].cost > purchase_log[Len(purchase_log)].cash
    /\ cash > 0

\* what math.floor(allocation / buy_price) is for the i-th purchase
FloorOfAllocation(i) ==
    (purchase_log[i].cash * alloc_per_event)
        \div (100 * (IF topk >= 1 THEN topk ELSE 1) * Purchases[i].buy_price)

\* C6 as stated: shares = floor(allocation / buy_price), and an event with
\* shares < 1 or cost > 98% of the cash is skipped: every purchase made has
\* floor(allocation / buy_price) >= 1 shares and costs at most 98% of the
\* cash.
C6_SkippedBelowOneShare ==
    \A i \in 1..Len(purchase_log) :
        /\ Purchases[i].buy_price > 0
        /\ FloorOfAllocation(i) >= 1
        /\ Purchases[i].shares = FloorOfAllocation(i)
        /\ Purchases[i].shares * Purchases[i].buy_price * 100
               <= purchase_log[i].cash * 98

\* C6 amended: for a buy price > 0, shares = max(1, floor(allocation /
\* buy_price)); an event is skipped when the allocation is <= 0 or the cost
\* shares x buy_price exceeds 98% of the cash, so every purchase made has a
\* positive allocation and costs at most 98% of the cash; an allocation that
\* buys less than one share still buys one share.
C6_SkipRule ==
    \A i \in 1..Len(purchase_log) :
        /\ Purchases[i].buy_price > 0
        /\ purchase_log[i].cash * alloc_per_event > 0
        /\ Purchases[i].shares =
               (IF FloorOfAllocation(i) >= 1 THEN FloorOfAllocation(i) ELSE 1)
        /\ Purchases[i].shares * Purchases[i].buy_price * 100
               <= purchase_log[i].cash * 98

\* C6 witness: a trade of one share made with an allocation smaller than
\* the price of one share.
C6_Witness ==
    \E i \in 1..Len(trades) :
        /\ FloorOfAllocation(i) = 0
        /\ trades[i].shares = 1

\* C7: for every trade pnl = (sell_price - buy_price) x shares +
\* dividend_cash, where dividend_cash = per-share amount x shares.
C7_PnlFormula ==
    \A i \in 1..Len(trades) :
        /\ trades[i].dividend_cash = purchase_log[i].amount * trades[i].shares
        /\ trades[i].pnl =
               (trades[i].sell_price - trades[i].buy_price) * trades[i].shares
                   + trades[i].dividend_cash

\* C7 witness: bought at 50.00, sold at 50.30, 100 shares, 0.50 per share
\* of dividend: pnl 80.00.
C7_Witness ==
    \E i \in 1..Len(trades) :
        /\ trades[i].buy_price = 5000
        /\ trades[i].sell_price = 5030
        /\ trades[i].shares = 100
        /\ purchase_log[i].amount = 50
        /\ trades[i].pnl = 8000

\* C16 as stated: an instrument whose dividend-history or price call failed
\* after its retries is skipped, it contributes no purchase and no trade,
\* and the simulation goes on with the other instruments instead of
\* raising.
C16_FailedInstrumentSkipped ==
    /\ \A f \in gateway_failed :
          /\ \A i \in 1..Len(trades) : trades[i].ticker # f[1]
          /\ \A i \in 1..Len(holding) : holding[i].ticker # f[1]
    /\ (\E f \in gateway_failed : f[2] = "eod") => sim_pc # "raised"

\* the sell dates of the trade log
SellDates == {trades[i].sell_date : i \in 1..Len(trades)}

\* the cash after the last trade, in processing order, that closed on date d
LastCashOn(d) ==
    equity_curve[Max({i \in 1..Len(equity_curve) : equity_curve[i].date = d})].equity

\* C19 as stated: the returned equity curve has exactly one point per sell
\* date, strictly ascending by date, and the value of a date is the cash
\* after the last trade, in processing order, that closed on that date.
C19_OnePointPerDateLastWins ==
    sim_pc = "done" =>
        /\ {equity_df[k].date : k \in 1..Len(equity_df)} = SellDates
        /\ Len(equity_df) = Cardinality(SellDates)
        /\ \A k \in 1..(Len(equity_df) - 1) :
              equity_df[k].date < equity_df[k + 1].date
        /\ \A k \in 1..Len(equity_df) :
              equity_df[k].equity = LastCashOn(equity_df[k].date)

\* C24 as stated: within one instrument the events update the cash in
\* ascending order of ex-date, whatever the order of the rows of the
\* dividend history: a trade never follows a trade of the same instrument
\* with a later ex-date.
C24_AscendingExDateOrder ==
    \A i, j \in 1..Len(trades) :
        (i < j /\ trades[i].ticker = trades[j].ticker) =>
            trades[i].ex_date <= trades[j].ex_date

\* the ledger: cash, trade log, equity-curve points
Ledger == <<cash, trades, equity_curve>>

\* the event a step buys or sells
EventOfStep(h, h_next) == IF h_next # <<>> THEN h_next[1] ELSE h[1]

\* C25: an event whose buy or sell date cannot be resolved, or whose ex-date
\* is outside [start, end], leaves cash, trade log and equity curve as they
\* were: a step that consumes a row without buying changes none of them, and
\* a step that changes one of them is the purchase or the sale of an event
\* with its ex-date in the window and both dates resolved on the price
\* calendar
C25_UnresolvedLeavesLedger ==
    [][/\ (sim_pc = "events" /\ rows_left' = rows_left - 1 /\ holding' = <<>>)
            => Ledger' = Ledger
       /\ Ledger' # Ledger =>
            LET p == EventOfStep(holding, holding')
            IN  /\ 1 <= p.ex_date /\ p.ex_date <= SimDays
                /\ Some(p.buy_date) =
                       shift_trading_day_with_calendar(
                           p.ex_date, 0 - hold_pre, px_dates(px))
                /\ Some(p.sell_date) =
                       shift_trading_day_with_calendar(
                           p.ex_date, hold_post, px_dates(px))]_vars

\* C25 witness: the rows of the first ticker are used up without a trade and
\* with the cash untouched, where neither the allocation nor the cost guard
\* can skip (cash 10000.00, half of it allocated, prices near 50.00): the
\* rows were skipped as unresolved or out of the window
C25_Witness ==
    /\ sim_pc = "events"
    /\ ti = 1
    /\ rows_left = 0
    /\ trades = <<>>
    /\ equity_curve = <<>>
    /\ initial_cash = 1000000
    /\ cash = initial_cash
    /\ alloc_per_event = 50
    /\ px = PxFrame("rising", 0)

\* the sum of pnl over the first n trades
RECURSIVE SumPnl(_)
SumPnl(n) == IF n = 0 THEN 0 ELSE SumPnl(n - 1) + trades[n].pnl

\* C26: between events the running cash is initial_cash plus the sum of pnl
\* over the trades emitted so far, and the equity-curve point appended for a
\* trade is (its sell date, the cash right after its credit)
C26_CashConservation ==
    /\ Len(equity_curve) = Len(trades)
    /\ holding = <<>> => cash = initial_cash + SumPnl(Len(trades))
    /\ \A i \in 1..Len(trades) :
          /\ equity_curve[i].date = trades[i].sell_date
          /\ equity_curve[i].equity = initial_cash + SumPnl(i)

\* C26 witness: two trades, gains and dividends, the cash has moved
C26_Witness ==
    /\ holding = <<>>
    /\ Len(trades) = 2
    /\ trades[1].dividend_cash > 0
    /\ trades[2].pnl # 0
    /\ equity_curve[1].equity # equity_curve[2].equity
    /\ cash # initial_cash

\* C27 as stated: the final equity main reports is the cash after the last
\* processed trade, initial_cash plus the sum of pnl over all trades, and the
\* cumulative return it reports is that of a curve ending at this cash, also
\* when a later-processed instrument has trades with earlier sell dates.
C27_FinalEquityIsFinalCash ==
    sim_pc = "done" =>
        /\ final_equity(equity_df) = cash
        /\ final_equity(equity_df) = initial_cash + SumPnl(Len(trades))
        /\ equity_df # <<>> =>
              cum_return(equity_df).num + cum_return(equity_df).den = cash

\* the cost of the i-th purchase
CostOf(i) == Purchases[i].shares * Purchases[i].buy_price

\* cost <= cash x alloc_per_event / max(1, topk) for the i-th purchase, with
\* the cash held before it
WithinAllocation(i) ==
    CostOf(i) * 100 * (IF topk >= 1 THEN topk ELSE 1)
        <= purchase_log[i].cash * alloc_per_event

\* C28 as stated: every trade costs at most the allocation of its event,
\* cash x alloc_per_event / max(1, topk), computed from the cash held before
\* the purchase.
C28_CostWithinAllocation ==
    \A i \in 1..Len(purchase_log) : WithinAllocation(i)

\* C28 amended: every trade costs at most the allocation of its event,
\* except that an allocation smaller than the price of one share buys one
\* share: then the cost is the buy price, above the allocation; in both
\* cases the cost is at most 98% of the cash held before the purchase.
C28_CostWithinAllocationOrOneShare ==
    \A i \in 1..Len(purchase_log) :
        /\ \/ WithinAllocation(i)
           \/ /\ Purchases[i].shares = 1
              /\ FloorOfAllocation(i) = 0
        /\ CostOf(i) * 100 <= purchase_log[i].cash * 98

\* C28 witness: a trade of one share that cost more than its allocation and
\* a trade of several shares within its allocation
C28_Witness ==
    /\ \E i \in 1..Len(trades) : trades[i].shares = 1 /\ ~WithinAllocation(i)
    /\ \E i \in 1..Len(trades) : trades[i].shares >= 2 /\ WithinAllocation(i)

\* the debits of the first n trades dated d or earlier, and their credits
\* (shares x sell_price + dividend_cash) dated d or earlier
RECURSIVE DebitsUpTo(_, _)
DebitsUpTo(n, d) ==
    IF n = 0 THEN 0
    ELSE DebitsUpTo(n - 1, d)
           + (IF trades[n].buy_date <= d
              THEN trades[n].shares * trades[n].buy_price ELSE 0)

RECURSIVE CreditsUpTo(_, _)
CreditsUpTo(n, d) ==
    IF n = 0 THEN 0
    ELSE CreditsUpTo(n - 1, d)
           + (IF trades[n].sell_date <= d
              THEN trades[n].shares * trades[n].sell_price
                     + trades[n].dividend_cash
              ELSE 0)

\* the cash at the end of day d when the trades are replayed by date
ReplayCash(d) ==
    initial_cash + CreditsUpTo(Len(trades), d) - DebitsUpTo(Len(trades), d)

\* C29 as stated: replaying the debits of all trades at their buy dates and
\* the credits at their sell dates in calendar order never drives the cash
\* negative (the credits of a day counted before its debits).
C29_ReplayNeverNegative ==
    \A d \in 1..SimDays : ReplayCash(d) >= 0

-----------------------------------------------------------------------------
(* SpecScore: build_scored_candidates *)

(***************************************************************************)
(* Yields are counted in percent and volumes in a unit of shares per day.  *)
(* The weights are counted in units of 0.25e-9, so that the floor 1e-9 of  *)
(* w_sum is WSumFloor units.  A normalized value and a score are fractions *)
(* [num, den] with den > 0.                                                *)
(***************************************************************************)

\* the screener returns at most MaxCandidates candidates
MaxCandidates == 3

\* max(1e-9, wY + wL + wS): the floor, in weight units
WSumFloor == 4

YieldChoices == {1, 2, 3}

VolumeChoices == {1, 2}

\* the next ex-date of a candidate: none (NaN), today, or today + 2 days
ExDeltaChoices == {0, 2}

\* (wY, wL, wS): all zero, a sum below the floor, one factor only, two
\* factors, all three
WeightChoices == {<<0, 0, 0>>, <<1, 1, 1>>, <<8, 0, 0>>, <<0, 8, 8>>, <<8, 4, 8>>}

\* --ex-lookahead: no window, a window that ends on the later ex-date, a
\* window that ends after it
LookaheadChoices == {0, 2, 4}

\* --topk of a scoring run: nothing, fewer than the candidates, all of them
RankTopkChoices == {0, 2, MaxCandidates}

Candidates ==
    [Y : YieldChoices, L : VolumeChoices,
     ex_date : {None} \cup {Some(PlanBufferDays + 1 + k) : k \in ExDeltaChoices}]

Min(S) == CHOOSE x \in S : \A y \in S : x <= y

\* score_S with days / lookahead in place of 1 - days / lookahead
score_S_days_over_window(exd, td, lookahead) ==
    IF exd = None THEN 0
    ELSE LET days == exd[1] - td
         IN  IF days < 0 \/ days > lookahead THEN 0 ELSE days

\* score_S(exd), as the numerator of a fraction over (ex_lookahead_days or 1)
score_S(exd, td, lookahead) ==
    IF exd = None THEN 0
    ELSE LET days == exd[1] - td
             den  == IF lookahead # 0 THEN lookahead ELSE 1
         IN  IF days < 0 \/ days > lookahead THEN 0
             ELSE Max2(0, den - days)

\* normalize without the subtraction of the minimum
normalize_no_shift(series) ==
    IF series = <<>> THEN series
    ELSE LET smin == Min(Range(series))
             smax == Max(Range(series))
         IN  IF smax - smin = 0
             THEN [i \in 1..Len(series) |-> [num |-> 1, den |-> 1]]
             ELSE [i \in 1..Len(series) |->
                      [num |-> series[i], den |-> smax - smin]]

\* normalize with zeros, not ones, for a series whose values are all equal
normalize_zero_when_tied(series) ==
    IF series = <<>> THEN series
    ELSE LET smin == Min(Range(series))
             smax == Max(Range(series))
         IN  IF smax - smin = 0
             THEN [i \in 1..Len(series) |-> [num |-> 0, den |-> 1]]
             ELSE [i \in 1..Len(series) |->
                      [num |-> series[i] - smin, den |-> smax - smin]]

\* normalize(series): min-max, and all ones when max = min
normalize(series) ==
    IF series = <<>> THEN series
    ELSE LET smin == Min(Range(series))
             smax == Max(Range(series))
         IN  IF smax - smin = 0
             THEN [i \in 1..Len(series) |-> [num |-> 1, den |-> 1]]
             ELSE [i \in 1..Len(series) |->
                      [num |-> series[i] - smin, den |-> smax - smin]]

\* the weight sum taken as it is, without the floor
w_sum_no_floor(wy, wl, ws) == wy + wl + ws

\* w_sum = max(1e-9, (wY + wL + wS))
w_sum(wy, wl, ws) == Max2(WSumFloor, wy + wl + ws)

\* base with the columns S, Y_n, L_n, S_n and Score added; idx is the
\* position of the row in base
scored(rows, td, lookahead, wy, wl, ws) ==
    LET S     == [i \in 1..Len(rows) |-> score_S(rows[i].ex_date, td, lookahead)]
        Y_n   == normalize([i \in 1..Len(rows) |-> rows[i].Y])
        L_n   == normalize([i \in 1..Len(rows) |-> rows[i].L])
        S_n   == normalize(S)
    IN  [i \in 1..Len(rows) |->
            [idx |-> i, Y |-> rows[i].Y, L |-> rows[i].L,
             ex_date |-> rows[i].ex_date, S |-> S[i],
             Y_n |-> Y_n[i], L_n |-> L_n[i], S_n |-> S_n[i],
             Score |->
                 [num |-> wy * Y_n[i].num * L_n[i].den * S_n[i].den
                          + wl * L_n[i].num * Y_n[i].den * S_n[i].den
                          + ws * S_n[i].num * Y_n[i].den * L_n[i].den,
                  den |-> w_sum(wy, wl, ws)
                              * Y_n[i].den * L_n[i].den * S_n[i].den]]]

\* a < b for fractions with positive denominators
FracLess(a, b) == a.num * b.den < b.num * a.den

\* base.sort_values("Score", ascending=False): the default sort kind is
\* quicksort, which is not stable, so every order of the rows that is
\* non-increasing in Score is a possible outcome
sort_values_desc(rows) ==
    {[i \in 1..Len(rows) |-> rows[f[i]]] : f \in
        {g \in Permutations1(Len(rows)) :
            \A i \in 1..(Len(rows) - 1) :
                ~FracLess(rows[g[i]].Score, rows[g[i + 1]].Score)}}

\* .head(topk) with the limit ignored
head_all(rows, k) == rows

\* .head(topk), for topk >= 0
head(rows, k) == SubSeq(rows, 1, IF k < Len(rows) THEN k ELSE Len(rows))

InitScore ==
    /\ score_pc = "start"
    /\ \E w \in WeightChoices : wY = w[1] /\ wL = w[2] /\ wS = w[3]
    /\ topk \in RankTopkChoices
    /\ hold_pre = 0
    /\ hold_post = 0
    /\ plan_pc = "idle"
    /\ today = PlanBufferDays + 1
    /\ ex_lookahead_days \in LookaheadChoices
    /\ hol = {}
    /\ all_future_events = <<>>
    /\ plans = <<>>
    /\ candidates = <<>>
    /\ ranked = <<>>
    /\ unavailable = {}
    /\ IdleCal
    /\ IdleSim
    /\ IdleGet
    /\ IdleDiv

\* base.empty with no row to look at
base_empty_never(rows) == FALSE

\* base.empty
base_empty(rows) == rows = <<>>

\* the rows of the demo table screener_etfs substitutes when _get raises:
\* dividend_yield in thousandths, avgvol in units of 50,000 shares
FallbackEtfs ==
    << [Y |-> 38, L |-> 70], [Y |-> 32, L |-> 36],  [Y |-> 35, L |-> 19],
       [Y |-> 25, L |-> 42], [Y |-> 27, L |-> 17],  [Y |-> 89, L |-> 13],
       [Y |-> 72, L |-> 104], [Y |-> 83, L |-> 76] >>

\* --min-avg-vol, its default of 200,000 shares in units of 50,000 shares
MinAvgVol == 4

\* --min-div-yield in thousandths: the default, a threshold that leaves a
\* part of the demo table, and one no demo row reaches
MinDivChoices == {9, 36, 100}

\* the demo table filtered by the screening criteria; the first
\* MaxCandidates rows of the table stand for the table
screener_fallback(min_div, min_avgvol) ==
    SelectSeq(SubSeq(FallbackEtfs, 1,
                     IF MaxCandidates < Len(FallbackEtfs)
                     THEN MaxCandidates ELSE Len(FallbackEtfs)),
              LAMBDA d : d.Y >= min_div /\ d.L >= min_avgvol)

\* the next ex-dates the dividend calendar gives a candidate
CalendarExDates == {None} \cup {Some(today + k) : k \in ExDeltaChoices}

\* the next ex-dates of the generated events get_dividend_calendar
\* substitutes when _get raises: none for a ticker outside its table, else a
\* day from tomorrow onwards
MockExDates == {None} \cup {Some(today + k) : k \in ExDeltaChoices \ {0}}

\* base.empty: raise RuntimeError
EmptyUniverse ==
    /\ score_pc = "start"
    /\ base_empty(<<>>)
    /\ score_pc' = "raised"
    /\ UNCHANGED <<wY, wL, wS, candidates, ranked, unavailable>>

\* the screener returns candidates: they are scored, sorted and cut to topk
BuildScoredCandidates ==
    /\ score_pc = "start"
    /\ \E rows \in SeqsUpTo(Candidates, MaxCandidates) :
          /\ ~base_empty(rows)
          /\ candidates' = rows
          /\ \E sorted_rows \in sort_values_desc(
                     scored(rows, today, ex_lookahead_days, wY, wL, wS)) :
                ranked' = head(sorted_rows, topk)
    /\ score_pc' = "done"
    /\ UNCHANGED <<wY, wL, wS, unavailable>>

\* screener_etfs: _get raises, the except branch substitutes the demo
\* table; the dividend calendar then answers, or raises in its turn and
\* substitutes generated events
ScreenerUnavailable ==
    /\ score_pc = "start"
    /\ \E min_div \in MinDivChoices, calendar_ok \in BOOLEAN :
          LET data == screener_fallback(min_div, MinAvgVol)
          IN  IF base_empty(data)
              THEN /\ candidates' = data
                   /\ ranked' = ranked
                   /\ unavailable' = {"screener"}
                   /\ score_pc' = "raised"
              ELSE \E exds \in [1..Len(data) ->
                                  IF calendar_ok THEN CalendarExDates
                                  ELSE MockExDates] :
                      /\ candidates' =
                             [i \in 1..Len(data) |->
                                 [Y |-> data[i].Y, L |-> data[i].L,
                                  ex_date |-> exds[i]]]
                      /\ \E sorted_rows \in sort_values_desc(
                                 scored(candidates', today, ex_lookahead_days,
                                        wY, wL, wS)) :
                            ranked' = head(sorted_rows, topk)
                      /\ unavailable' =
                             IF calendar_ok THEN {"screener"}
                             ELSE {"screener", "calendar"}
                      /\ score_pc' = "done"
    /\ UNCHANGED <<wY, wL, wS>>

\* get_dividend_calendar: _get raises, the except branch substitutes
\* generated events for the candidates the screener returned
CalendarUnavailable ==
    /\ score_pc = "start"
    /\ \E rows \in SeqsUpTo([Y : YieldChoices, L : VolumeChoices,
                             ex_date : MockExDates], MaxCandidates) :
          /\ ~base_empty(rows)
          /\ candidates' = rows
          /\ \E sorted_rows \in sort_values_desc(
                     scored(rows, today, ex_lookahead_days, wY, wL, wS)) :
                ranked' = head(sorted_rows, topk)
    /\ unavailable' = {"calendar"}
    /\ score_pc' = "done"
    /\ UNCHANGED <<wY, wL, wS>>

\* main: the exception of build_scored_candidates is not caught; the
\* interpreter prints the traceback and exits with status 1, nothing after
\* the call runs
MainUncaught ==
    /\ score_pc = "raised"
    /\ score_pc' = "exit_nonzero"
    /\ UNCHANGED <<wY, wL, wS, candidates, ranked, unavailable>>

NextScore ==
    \/ EmptyUniverse /\ UNCHANGED <<divVars, getVars, argVars, calVars, planVars, simVars>>
    \/ BuildScoredCandidates /\ UNCHANGED <<divVars, getVars, argVars, calVars, planVars, simVars>>
    \/ ScreenerUnavailable /\ UNCHANGED <<divVars, getVars, argVars, calVars, planVars, simVars>>
    \/ CalendarUnavailable /\ UNCHANGED <<divVars, getVars, argVars, calVars, planVars, simVars>>
    \/ MainUncaught /\ UNCHANGED <<divVars, getVars, argVars, calVars, planVars, simVars>>

SpecScore == InitScore /\ [][NextScore]_vars

-----------------------------------------------------------------------------
(* Properties of the scorer (SpecScore) *)

\* a fraction with a positive denominator that lies in [0, 1]
InUnitInterval(q) == q.den > 0 /\ 0 <= q.num /\ q.num <= q.den

FracEqual(a, b) == a.num * b.den = b.num * a.den

\* C8 as stated: the output of build_scored_candidates has as many rows as
\* the candidates that survived filtering.  Stated here for topk >= 1 only,
\* where it fails all the same.
C8_LengthIsInputLength ==
    (score_pc = "done" /\ topk >= 1) => Len(ranked) = Len(candidates)

\* C8 amended: for topk >= 0 the output has min(topk, number of surviving
\* candidates) rows, each of them a different row of the input.
C8_LengthIsMinTopk ==
    score_pc = "done" =>
        /\ Len(ranked) = (IF topk < Len(candidates) THEN topk ELSE Len(candidates))
        /\ \A i \in 1..Len(ranked) :
              /\ ranked[i].idx \in 1..Len(candidates)
              /\ ranked[i].Y = candidates[ranked[i].idx].Y
              /\ ranked[i].L = candidates[ranked[i].idx].L
              /\ ranked[i].ex_date = candidates[ranked[i].idx].ex_date
        /\ \A i, j \in 1..Len(ranked) : i # j => ranked[i].idx # ranked[j].idx

\* C8 witness: three candidates cut to the top two.
C8_Witness ==
    /\ score_pc = "done"
    /\ Len(candidates) = 3
    /\ topk = 2
    /\ Len(ranked) = 2

\* C9: every sub-score Y_n, L_n, S_n and every composite Score is in [0, 1].
C9_ScoresInUnitInterval ==
    \A i \in 1..Len(ranked) :
        /\ InUnitInterval(ranked[i].Y_n)
        /\ InUnitInterval(ranked[i].L_n)
        /\ InUnitInterval(ranked[i].S_n)
        /\ InUnitInterval(ranked[i].Score)

\* C9 witness: with three positive weights, a row with composite score 1
\* above a row with a composite score strictly between 0 and 1.
C9_Witness ==
    /\ score_pc = "done"
    /\ wY > 0 /\ wL > 0 /\ wS > 0
    /\ Len(ranked) = 2
    /\ ranked[1].Score.num = ranked[1].Score.den
    /\ 0 < ranked[2].Score.num
    /\ ranked[2].Score.num < ranked[2].Score.den

\* C10 as stated: the output is non-increasing in Score and rows of equal
\* Score keep their input order.
C10_SortedAndStable ==
    \A i, j \in 1..Len(ranked) :
        i < j =>
            /\ ~FracLess(ranked[i].Score, ranked[j].Score)
            /\ FracEqual(ranked[i].Score, ranked[j].Score)
                   => ranked[i].idx < ranked[j].idx


\* the composite score of row r under equal weights: (Y_n + L_n + S_n) / 3
EqualWeightScore(r) ==
    [num |-> r.Y_n.num * r.L_n.den * r.S_n.den
             + r.L_n.num * r.Y_n.den * r.S_n.den
             + r.S_n.num * r.Y_n.den * r.L_n.den,
     den |-> 3 * r.Y_n.den * r.L_n.den * r.S_n.den]

ZeroWeights == wY = 0 /\ wL = 0 /\ wS = 0

\* C11 as stated: with wY = wL = wS = 0 the composite score of every row is
\* (Y_n + L_n + S_n) / 3, and no division error is raised.
C11_ZeroWeightsEqualThirds ==
    (score_pc = "done" /\ ZeroWeights) =>
        \A i \in 1..Len(ranked) :
            /\ ranked[i].Score.den > 0
            /\ FracEqual(ranked[i].Score, EqualWeightScore(ranked[i]))

\* C11 amended: with wY = wL = wS = 0 no division error is raised (the
\* weight sum is floored, the divisor is positive), the three normalized
\* weights are 0 and the composite score of every row is 0.
C11_ZeroWeightsScoreZero ==
    (score_pc = "done" /\ ZeroWeights) =>
        \A i \in 1..Len(ranked) :
            /\ ranked[i].Score.den > 0
            /\ ranked[i].Score.num = 0

\* C11 witness: a ranking made with all-zero weights of two rows that
\* differ in their yield sub-score, one of them with all sub-scores 1.
C11_Witness ==
    /\ score_pc = "done"
    /\ ZeroWeights
    /\ Len(ranked) >= 2
    /\ ~FracEqual(ranked[1].Y_n, ranked[2].Y_n)
    /\ \E i \in 1..Len(ranked) :
          /\ EqualWeightScore(ranked[i]).num = EqualWeightScore(ranked[i]).den
          /\ ranked[i].Score.num = 0

\* the proximity rule of the scorer for candidate c, as a numerator over
\* ProximityDen: 0 without an ex-date, for an ex-date in the past or beyond
\* the lookahead window, else 1 - days / lookahead clamped to [0, 1]
ProximityDen == IF ex_lookahead_days = 0 THEN 1 ELSE ex_lookahead_days

ProximityNum(c) ==
    IF c.ex_date = None THEN 0
    ELSE IF c.ex_date[1] < today THEN 0
    ELSE IF c.ex_date[1] - today > ex_lookahead_days THEN 0
    ELSE IF ProximityDen - (c.ex_date[1] - today) < 0 THEN 0
    ELSE ProximityDen - (c.ex_date[1] - today)

ProximityNums == {ProximityNum(candidates[j]) : j \in 1..Len(candidates)}

\* C12 as stated: the proximity sub-score that enters the composite score
\* of a row is the value of the proximity rule for that row, whatever the
\* other candidates are (stated for lookahead_days >= 1).
C12_ProximityIsRule ==
    (score_pc = "done" /\ ex_lookahead_days >= 1) =>
        \A i \in 1..Len(ranked) :
            FracEqual(ranked[i].S_n,
                      [num |-> ProximityNum(ranked[i]), den |-> ProximityDen])

\* C12 amended: the raw proximity S of a row is the value of the proximity
\* rule (with lookahead_days = 0 counted as 1), and the sub-score that
\* enters the composite score is the min-max normalization of S over the
\* candidate set: 1 for every row when all S are equal, else
\* (S - min) / (max - min).  An ex-date exactly lookahead_days out has
\* S = 0; its sub-score is 0 when some candidate has S > 0 and 1 otherwise.
C12_ProximityRenormalized ==
    score_pc = "done" =>
        \A i \in 1..Len(ranked) :
            /\ ranked[i].S = ProximityNum(ranked[i])
            /\ IF Max(ProximityNums) = Min(ProximityNums)
               THEN ranked[i].S_n.num = ranked[i].S_n.den
               ELSE FracEqual(ranked[i].S_n,
                        [num |-> ProximityNum(ranked[i]) - Min(ProximityNums),
                         den |-> Max(ProximityNums) - Min(ProximityNums)])
            /\ (/\ ex_lookahead_days >= 1
                /\ ranked[i].ex_date = Some(today + ex_lookahead_days))
                   => /\ ranked[i].S = 0
                      /\ ranked[i].S_n.num =
                             (IF \E n \in ProximityNums : n > 0
                              THEN 0 ELSE ranked[i].S_n.den)

\* C12 witness: with a lookahead of 4 days a row whose ex-date is 2 days
\* out (S = 1/2) gets the sub-score 1, next to a row with the sub-score 0.
C12_Witness ==
    /\ score_pc = "done"
    /\ ex_lookahead_days = 4
    /\ \E i, j \in 1..Len(ranked) :
          /\ ranked[i].ex_date = Some(today + 2)
          /\ ranked[i].S = 2
          /\ ranked[i].S_n.num = ranked[i].S_n.den
          /\ ranked[j].S_n.num = 0

\* (value - min) / (max - min) over the set vals, and 1 when max = min
MinMax(v, vals) ==
    IF Max(vals) = Min(vals) THEN [num |-> 1, den |-> 1]
    ELSE [num |-> v - Min(vals), den |-> Max(vals) - Min(vals)]

CandidateYields == {candidates[j].Y : j \in 1..Len(candidates)}

CandidateVolumes == {candidates[j].L : j \in 1..Len(candidates)}

\* the scenario of C13: three candidates with yields 1, 2 and 3 percent in
\* some order, identical liquidity, no ex-dates, weights (1, 0, 0), and a
\* topk that keeps all three
YieldScenario ==
    /\ Len(candidates) = 3
    /\ CandidateYields = {1, 2, 3}
    /\ Cardinality(CandidateVolumes) = 1
    /\ \A j \in 1..3 : candidates[j].ex_date = None
    /\ wY > 0 /\ wL = 0 /\ wS = 0
    /\ wY >= WSumFloor
    /\ topk >= 3

\* C13: the yield and liquidity sub-scores are (value - min) / (max - min)
\* over the candidate set, and 1 for every candidate when max = min; in the
\* scenario the ranking is 3% > 2% > 1% with composite scores 1, 1/2, 0.
C13_MinMaxScenario ==
    score_pc = "done" =>
        /\ \A i \in 1..Len(ranked) :
              /\ FracEqual(ranked[i].Y_n, MinMax(ranked[i].Y, CandidateYields))
              /\ FracEqual(ranked[i].L_n, MinMax(ranked[i].L, CandidateVolumes))
              /\ Cardinality(CandidateYields) = 1
                     => ranked[i].Y_n.num = ranked[i].Y_n.den
              /\ Cardinality(CandidateVolumes) = 1
                     => ranked[i].L_n.num = ranked[i].L_n.den
        /\ YieldScenario =>
              /\ Len(ranked) = 3
              /\ ranked[1].Y = 3 /\ ranked[2].Y = 2 /\ ranked[3].Y = 1
              /\ FracEqual(ranked[1].Score, [num |-> 1, den |-> 1])
              /\ FracEqual(ranked[2].Score, [num |-> 1, den |-> 2])
              /\ FracEqual(ranked[3].Score, [num |-> 0, den |-> 1])

\* C13 witness: the scenario, with the candidates given in the order 2%,
\* 1%, 3%.
C13_Witness ==
    /\ score_pc = "done"
    /\ YieldScenario
    /\ candidates[1].Y = 2 /\ candidates[2].Y = 1 /\ candidates[3].Y = 3
    /\ Len(ranked) = 3
    /\ ranked[1].Y = 3


\* C14: when filtering leaves no instrument the scoring operation raises
\* and returns no ranking, empty or not, and the run ends with a non-zero
\* exit; a ranking is only ever returned for a non-empty universe.
C14_EmptyUniverseFails ==
    /\ score_pc = "done" => candidates # <<>>
    /\ (score_pc # "start" /\ candidates = <<>>) =>
           /\ score_pc \in {"raised", "exit_nonzero"}
           /\ ranked = <<>>
    /\ score_pc \in {"raised", "exit_nonzero"} =>
           /\ candidates = <<>>
           /\ ranked = <<>>

\* C14 witness: the run has ended with a non-zero exit on an empty universe
\* the screener itself returned.
C14_Witness ==
    /\ score_pc = "exit_nonzero"
    /\ candidates = <<>>
    /\ ranked = <<>>
    /\ unavailable = {}

\* C15 as stated: when the screener or the dividend-calendar lookup is
\* unavailable after its retries the scoring step fails and the failure
\* reaches the top level; it never returns a ranking made from substituted
\* data.
C15_GatewayDownScoringFails ==
    (score_pc # "start" /\ unavailable # {}) =>
        /\ score_pc \in {"raised", "exit_nonzero"}
        /\ ranked = <<>>

-----------------------------------------------------------------------------
(* SpecGet: one call of _get *)

\* the decoded bodies a response can carry
Bodies == {1, 2}

\* Retry-After of a 429 response, in sixteenths of a second: absent, negative,
\* zero, three seconds
RetryAfterChoices == {None, Some(0 - 16), Some(0), Some(48)}

\* backoff = 1.0, in sixteenths of a second
InitialBackoff == 16

\* the cap of min(backoff * 2, 20.0), in sixteenths of a second
BackoffCap == 320

\* what requests.get gives: status 0 stands for a RequestException raised by
\* requests.get itself (no response); gz tells what gzip.decompress finds in
\* the content ("none": no gzip magic bytes), json what the text under it
\* parses to (None: not JSON)
Responses ==
    [status : {200}, retry_after : {None}, header_gzip : BOOLEAN,
     gz : {"none", "ok", "truncated", "corrupt"},
     json : {None} \cup {Some(b) : b \in Bodies}]
    \cup
    [status : {429}, retry_after : RetryAfterChoices, header_gzip : {FALSE},
     gz : {"none"}, json : {None}]
    \cup
    [status : {0, 500}, retry_after : {None}, header_gzip : {FALSE},
     gz : {"none"}, json : {None}]

\* json.loads / r.json() of a text
json_loads(json) ==
    IF json = None THEN [tag |-> "ValueError", value |-> 0]
    ELSE [tag |-> "value", value |-> json[1]]

\* r.json(): the content itself parses only when it is not gzip data
r_json(r) == IF r.gz = "none" THEN json_loads(r.json) ELSE json_loads(None)

\* json.loads(gzip.decompress(r.content).decode("utf-8")), with the handler
\* of gzip.BadGzipFile and EOFError; zlib.error is not handled
loads_decompressed(r) ==
    IF r.gz = "ok" THEN json_loads(r.json)
    ELSE IF r.gz = "corrupt" THEN [tag |-> "zlib.error", value |-> 0]
    ELSE r_json(r)

\* the inner try of _get on a response that passed raise_for_status
decode(r) ==
    IF r.header_gzip THEN loads_decompressed(r)
    ELSE IF r.gz # "none" THEN loads_decompressed(r)
    ELSE r_json(r)

\* how the loop body ends on response r: "returned", "rate_limited" (slept
\* and continued), "caught" (RequestException or ValueError), "uncaught"
outcome_of(r) ==
    IF r.status = 0 THEN "caught"
    ELSE IF r.status = 429
         THEN IF r.retry_after # None /\ r.retry_after[1] < 0
              THEN "caught" ELSE "rate_limited"
    ELSE IF r.status # 200 THEN "caught"
    ELSE IF decode(r).tag = "value" THEN "returned"
    ELSE IF decode(r).tag = "ValueError" THEN "caught"
    ELSE "uncaught"

\* for attempt in range(7)
in_range_seven(a) == a \in 0..6

\* for attempt in range(6)
in_range(a) == a \in 0..5

\* 3 ** a and 2 ** a
Pow(b, a) == IF a = 0 THEN 1 ELSE IF a = 1 THEN b
             ELSE IF a = 2 THEN b * b ELSE IF a = 3 THEN b * b * b
             ELSE IF a = 4 THEN b * b * b * b
             ELSE IF a = 5 THEN b * b * b * b * b
             ELSE b * b * b * b * b * b

\* sleep_s = backoff * (1.5 ** attempt), in sixteenths of a second (rounded
\* down from attempt 5 on)
sleep_s(b, a) == (b * Pow(3, a)) \div Pow(2, a)

\* min(backoff * 2, 20.0)
next_backoff(b) == IF b * 2 <= BackoffCap THEN b * 2 ELSE BackoffCap

InitGet ==
    /\ get_pc = "loop"
    /\ attempt = 0
    /\ backoff = InitialBackoff
    /\ outcomes = <<>>
    /\ sleeps = <<>>
    /\ last_response = None
    /\ get_result = None
    /\ IdleArgs
    /\ IdleCal
    /\ IdlePlan
    /\ IdleSim
    /\ IdleScore
    /\ IdleDiv

\* the next iteration, or raise RuntimeError("Unreachable") after the loop
Continue ==
    /\ attempt' = attempt + 1
    /\ get_pc' = IF in_range(attempt + 1) THEN "loop" ELSE "raised"

\* a response that decodes: return the body
GetReturn ==
    /\ get_pc = "loop"
    /\ \E r \in Responses :
          /\ outcome_of(r) = "returned"
          /\ last_response' = Some(r)
          /\ get_result' = Some(decode(r).value)
    /\ outcomes' = Append(outcomes, "returned")
    /\ get_pc' = "returned"
    /\ UNCHANGED <<attempt, backoff, sleeps>>

\* status 429: sleep Retry-After (the backoff without the header), double
\* the backoff, continue
GetRateLimited ==
    /\ get_pc = "loop"
    /\ \E r \in Responses :
          /\ outcome_of(r) = "rate_limited"
          /\ last_response' = Some(r)
          /\ sleeps' = Append(sleeps, IF r.retry_after = None THEN backoff
                                      ELSE r.retry_after[1])
    /\ outcomes' = Append(outcomes, "rate_limited")
    /\ backoff' = next_backoff(backoff)
    /\ Continue
    /\ UNCHANGED get_result

\* RequestException or ValueError before the last attempt: sleep, go on
GetRetry ==
    /\ get_pc = "loop"
    /\ attempt # 5
    /\ \E r \in Responses :
          /\ outcome_of(r) = "caught"
          /\ last_response' = Some(r)
    /\ outcomes' = Append(outcomes, "caught")
    /\ sleeps' = Append(sleeps, sleep_s(backoff, attempt))
    /\ Continue
    /\ UNCHANGED <<backoff, get_result>>

\* RequestException or ValueError at attempt 5: raise
GetRaise ==
    /\ get_pc = "loop"
    /\ attempt = 5
    /\ \E r \in Responses :
          /\ outcome_of(r) = "caught"
          /\ last_response' = Some(r)
    /\ outcomes' = Append(outcomes, "caught")
    /\ get_pc' = "raised"
    /\ UNCHANGED <<attempt, backoff, sleeps, get_result>>

\* an exception the handler does not name leaves _get at once
GetUncaught ==
    /\ get_pc = "loop"
    /\ \E r \in Responses :
          /\ outcome_of(r) = "uncaught"
          /\ last_response' = Some(r)
    /\ outcomes' = Append(outcomes, "uncaught")
    /\ get_pc' = "raised"
    /\ UNCHANGED <<attempt, backoff, sleeps, get_result>>

NextGet ==
    \/ GetReturn /\ UNCHANGED <<divVars, argVars, calVars, planVars, simVars, scoreVars>>
    \/ GetRateLimited /\ UNCHANGED <<divVars, argVars, calVars, planVars, simVars, scoreVars>>
    \/ GetRetry /\ UNCHANGED <<divVars, argVars, calVars, planVars, simVars, scoreVars>>
    \/ GetRaise /\ UNCHANGED <<divVars, argVars, calVars, planVars, simVars, scoreVars>>
    \/ GetUncaught /\ UNCHANGED <<divVars, argVars, calVars, planVars, simVars, scoreVars>>

SpecGet == InitGet /\ [][NextGet]_vars

\* the interpreter runs the loop to its end: a request times out after 30 s
\* and every sleep is finite
SpecGetLive == InitGet /\ [][NextGet]_vars /\ WF_vars(NextGet)

-----------------------------------------------------------------------------
(* Properties of _get (SpecGetLive) *)

\* the requests sent so far
Requests == Len(outcomes)

Failed(i) == outcomes[i] \in {"rate_limited", "caught", "uncaught"}

\* at most 6 requests; a value is returned only as the decoded body of a
\* response that succeeded after only failed ones; 6 failed requests end in
\* an exception and no value
GetContract ==
    /\ Requests <= 6
    /\ get_pc = "loop" => Requests = attempt /\ attempt < 6
    /\ get_pc = "returned" =>
          /\ Requests >= 1
          /\ \A i \in 1..(Requests - 1) : Failed(i)
          /\ last_response[1].status = 200
          /\ decode(last_response[1]).tag = "value"
          /\ get_result = Some(decode(last_response[1]).value)
    /\ get_pc # "returned" => get_result = None
    /\ (Requests = 6 /\ \A i \in 1..6 : Failed(i)) => get_pc = "raised"

GetEnded == get_pc \in {"returned", "raised"}

-----------------------------------------------------------------------------
(* SpecDiv: DividedByZeroAgent.divide *)

\* a float: finite (a fraction num / den with den > 0), an infinity (num is
\* its sign) or NaN
Fin(n, d) == [cls |-> "fin", num |-> n, den |-> d]

Inf(s) == [cls |-> "inf", num |-> s, den |-> 1]

NaN == [cls |-> "nan", num |-> 0, den |-> 1]

\* the finite inputs are the integers -MaxAbsInput..MaxAbsInput
MaxAbsInput == 4

\* the floats DivInput accepts for a and b
FloatInputs ==
    {Fin(n, 1) : n \in (0 - MaxAbsInput)..MaxAbsInput}
        \cup {Inf(0 - 1), Inf(1), NaN}

Sign(n) == IF n > 0 THEN 1 ELSE IF n < 0 THEN 0 - 1 ELSE 0

IsZeroFloat(x) == x.cls = "fin" /\ x.num = 0

\* x / y of two floats with y != 0 (IEEE 754: NaN propagates, inf / inf is
\* NaN, finite / inf is zero)
float_div(x, y) ==
    IF x.cls = "nan" \/ y.cls = "nan" THEN NaN
    ELSE IF x.cls = "inf"
         THEN IF y.cls = "inf" THEN NaN ELSE Inf(x.num * Sign(y.num))
    ELSE IF y.cls = "inf" THEN Fin(0, 1)
    ELSE Fin(x.num * y.den * Sign(y.num),
             x.den * y.num * Sign(y.num))

\* res < 0 and res == 0 of a float: both False for NaN
float_lt_zero(res) == res.cls # "nan" /\ res.num < 0

float_eq_zero(res) == res.cls = "fin" /\ res.num = 0

\* the if / elif / else of divide
classify(res) ==
    IF float_lt_zero(res) THEN "REFRAIN"
    ELSE IF float_eq_zero(res) THEN "TEND"
    ELSE "AFFIRM"

\* an except branch that returns DivResult(result=0, state="AFFIRM")
zero_division_affirm == [result |-> Fin(0, 1), state |-> "AFFIRM"]

\* except ZeroDivisionError: return DivResult(result=0, state="TEND")
zero_division_result == [result |-> Fin(0, 1), state |-> "TEND"]

InitDiv ==
    /\ div_pc = "start"
    /\ inp \in [a : FloatInputs, b : FloatInputs]
    /\ div_result = <<>>
    /\ IdleArgs
    /\ IdleCal
    /\ IdlePlan
    /\ IdleSim
    /\ IdleScore
    /\ IdleGet

\* the try branch: inp.a / inp.b does not raise
Divide ==
    /\ div_pc = "start"
    /\ ~IsZeroFloat(inp.b)
    /\ div_result' = [result |-> float_div(inp.a, inp.b),
                      state |-> classify(float_div(inp.a, inp.b))]
    /\ div_pc' = "done"
    /\ UNCHANGED inp

\* inp.a / inp.b raises ZeroDivisionError: the except branch
DivideByZero ==
    /\ div_pc = "start"
    /\ IsZeroFloat(inp.b)
    /\ div_result' = zero_division_result
    /\ div_pc' = "done"
    /\ UNCHANGED inp

NextDiv ==
    \/ Divide /\ UNCHANGED <<argVars, calVars, planVars, simVars, scoreVars, getVars>>
    \/ DivideByZero /\ UNCHANGED <<argVars, calVars, planVars, simVars, scoreVars, getVars>>

SpecDiv == InitDiv /\ [][NextDiv]_vars

-----------------------------------------------------------------------------
(* Properties of divide (SpecDiv) *)

\* C22: divide never raises on a zero denominator: for every numerator a,
\* divide(a, 0) returns result 0 with state "TEND"
C22_ZeroDenominatorTend ==
    (div_pc = "done" /\ IsZeroFloat(inp.b)) =>
        /\ div_result.result = Fin(0, 1)
        /\ div_result.state = "TEND"

\* C22 witness: a non-zero numerator over zero, returned
C22_Witness ==
    /\ div_pc = "done"
    /\ IsZeroFloat(inp.b)
    /\ ~IsZeroFloat(inp.a)
    /\ div_result.state = "TEND"

\* the result is a / b: result * b = a for finite operands
IsQuotient(res, x, y) ==
    IF x.cls = "fin" /\ y.cls = "fin"
    THEN res.cls = "fin" /\ res.den > 0 /\ res.num * y.num = x.num * res.den
    ELSE res = float_div(x, y)

\* C23: for every a and every b != 0, divide returns result = a / b and the
\* state is the sign of the result: "AFFIRM" iff result > 0, "TEND" iff
\* result = 0, "REFRAIN" iff result < 0
C23_StateIsSignOfResult ==
    (div_pc = "done" /\ ~IsZeroFloat(inp.b)) =>
        LET res == div_result.result
        IN  /\ IsQuotient(res, inp.a, inp.b)
            /\ div_result.state \in {"AFFIRM", "TEND", "REFRAIN"}
            /\ div_result.state = "AFFIRM" <=> (res.cls # "nan" /\ res.num > 0)
            /\ div_result.state = "TEND" <=> (res.cls = "fin" /\ res.num = 0)
            /\ div_result.state = "REFRAIN" <=> (res.cls # "nan" /\ res.num < 0)

-----------------------------------------------------------------------------
(* Further properties of _get (SpecGet) *)

\* C21: no sleep of _get between attempts exceeds the 20 s cap, for every
\* sequence of 429 responses (with or without Retry-After) and request errors
C21_SleepsWithinCap ==
    \A i \in 1..Len(sleeps) : sleeps[i] <= BackoffCap

-----------------------------------------------------------------------------
(* SpecIndex: shift_trading_day_with_calendar on list(px.index.date) *)

\* the dates of a price index are 1..IndexDays
IndexDays == 4

\* a price index has at most MaxIndexLen rows
MaxIndexLen == 4

\* list(px.index.date) of a price frame as the gateway delivered it: any
\* list of dates, a date may come more than once and in any order
PriceIndexLists == SeqsUpTo(1..IndexDays, MaxIndexLen)

InitIndex ==
    /\ cal_pc = "index"
    /\ trading_calendar \in PriceIndexLists
    /\ start_d = 1
    /\ end_d = IndexDays
    /\ holidays = {}
    /\ ref_date = 1
    /\ offset = 0
    /\ shift_result = None
    /\ IdleArgs
    /\ IdlePlan
    /\ IdleSim
    /\ IdleScore
    /\ IdleGet
    /\ IdleDiv

\* buy_d / sell_d = shift_trading_day_with_calendar(exd, offset,
\* list(px.index.date))
ShiftOnPriceIndex ==
    /\ cal_pc = "index"
    /\ \E ref \in 1..IndexDays, off \in Offsets :
          /\ ref_date' = ref
          /\ offset' = off
          /\ shift_result' =
                 shift_trading_day_with_calendar(ref, off, trading_calendar)
    /\ cal_pc' = "index_shifted"
    /\ UNCHANGED <<start_d, end_d, holidays, trading_calendar>>

NextIndex ==
    ShiftOnPriceIndex
        /\ UNCHANGED <<divVars, getVars, argVars, planVars, simVars, scoreVars>>

SpecIndex == InitIndex /\ [][NextIndex]_vars

-----------------------------------------------------------------------------
(* Properties of the shift on a price index (SpecIndex) *)

\* the distinct dates of a list in ascending order
SortedDistinct(s) ==
    LET S == Range(s)
    IN  [k \in 1..Cardinality(S) |->
            CHOOSE d \in S : Cardinality({x \in S : x <= d}) = k]

\* C30 as stated: on a calendar list that holds a date more than once or
\* is not sorted, shift_trading_day_with_calendar returns what it returns on
\* the sorted, deduplicated calendar.
C30_SameAsDeduplicated ==
    cal_pc = "index_shifted" =>
        shift_result =
            shift_trading_day_with_calendar(ref_date, offset,
                                            SortedDistinct(trading_calendar))

=============================================================================
